---- MODULE Spec2Model ----
(***************************************************************************)
(* playground.rs: the ?play, ?eval and ?miri commands.  One invocation is  *)
(* modelled from its entry point to its return: the flag parse, the POST   *)
(* to the playground, the rendering of the result, the gist upload and     *)
(* the reply.  Text is modelled by TLA+ strings, so lengths, substrings    *)
(* and concatenations are the real ones.  The TLA+ lexer accepts no        *)
(* backquote inside a string: BQ (an apostrophe) stands for U+0060         *)
(* everywhere, and no input contains an apostrophe of its own.             *)
(***************************************************************************)
EXTENDS Integers, Sequences, FiniteSets, TLC

VARIABLES
    cmd,        \* the command invoked: "play", "eval", "miri" ("parse_flags" in SpecFlags)
    body,       \* args.body
    params,     \* args.params: key -> Option<String>
    pc,         \* where the invocation is: start, exec, gist, done (parsed in SpecFlags)
    code,       \* Option: the code handed to the request and to send_play_result_reply
    flags,      \* CommandFlags returned by parse_flags
    warn,       \* the bool returned by parse_flags
    errors,     \* the String of parse errors returned by parse_flags
    request,    \* Option: the execute / miri request posted
    result,     \* Option: the PlayResult received
    rendered,   \* Option: the text send_play_result_reply chose to show
    gistPost,   \* sequence of the payloads posted to the gist endpoint
    gistRet,    \* Option: the paste service's response and what post_gist returned for it
    replies,    \* sequence of the texts handed to api::send_reply
    ret,        \* Option: the entry point's return value, "Ok" or "Err"
    log         \* the steps of the invocation, in order

vars == <<cmd, body, params, pc, code, flags, warn, errors, request, result,
          rendered, gistPost, gistRet, replies, ret, log>>

----------------------------------------------------------------------------
(* Option<T> *)
None == <<>>
Some(x) == <<x>>

(* The backquote. *)
BQ == "'"
Fence == BQ \o BQ \o BQ

(* A text of n characters, for the long outputs. *)
RECURSIVE Pad(_)
Pad(n) ==
    IF n = 0 THEN ""
    ELSE IF n % 2 = 1 THEN "x" \o Pad(n - 1)
    ELSE LET h == Pad(n \div 2) IN h \o h

(* str::contains *)
Contains(s, sub) ==
    \E i \in 1..(Len(s) - Len(sub) + 1) : SubSeq(s, i, i + Len(sub) - 1) = sub

(* str::starts_with *)
StartsWith(s, p) == Len(p) <= Len(s) /\ SubSeq(s, 1, Len(p)) = p

(* Position of the first occurrence of sub in s at or after from; 0 if none. *)
Find(s, sub, from) ==
    LET hits == {i \in from..(Len(s) - Len(sub) + 1) : SubSeq(s, i, i + Len(sub) - 1) = sub}
    IN IF hits = {} THEN 0 ELSE CHOOSE i \in hits : \A j \in hits : i <= j

(* str::lines: split at "\n", no final empty line.  (No input holds "\r".) *)
RECURSIVE Lines(_)
Lines(s) ==
    IF s = "" THEN <<>>
    ELSE LET i == Find(s, "\n", 1)
         IN IF i = 0 THEN <<s>>
            ELSE <<SubSeq(s, 1, i - 1)>> \o Lines(SubSeq(s, i + 1, Len(s)))

----------------------------------------------------------------------------
(* impl FromStr for Channel / Edition / Mode, and bool *)
Ok(v) == [ok |-> TRUE, val |-> v, err |-> ""]
Err(e) == [ok |-> FALSE, val |-> "", err |-> e]

ChannelFromStr(s) ==
    CASE s = "stable" -> Ok("Stable")
      [] s = "beta" -> Ok("Beta")
      [] s = "nightly" -> Ok("Nightly")
      [] OTHER -> Err("invalid release channel " \o BQ \o s \o BQ)

EditionFromStr(s) ==
    CASE s = "2015" -> Ok("E2015")
      [] s = "2018" -> Ok("E2018")
      [] OTHER -> Err("invalid edition " \o BQ \o s \o BQ)

ModeFromStr(s) ==
    CASE s = "debug" -> Ok("Debug")
      [] s = "release" -> Ok("Release")
      [] OTHER -> Err("invalid compilation mode " \o BQ \o s \o BQ)

BoolFromStr(s) ==
    CASE s = "true" -> [ok |-> TRUE, val |-> TRUE, err |-> ""]
      [] s = "false" -> [ok |-> TRUE, val |-> FALSE, err |-> ""]
      [] OTHER -> [ok |-> FALSE, val |-> FALSE, err |-> "provided string was not true or false"]

DefaultFlags == [channel |-> "Nightly", mode |-> "Debug", edition |-> "E2018"]

(* One "if let Some(..) = args.params.get(..)" block of parse_flags: the   *)
(* value the field ends with and the text added to errors.                 *)
ParseField(opt, default, parsed, errline) ==
    IF opt = None THEN [v |-> default, e |-> ""]
    ELSE IF parsed.ok THEN [v |-> parsed.val, e |-> ""]
    ELSE [v |-> default, e |-> errline]

(* parse_flags with the error arms of channel and warn also assigning.     *)
parse_flags_no_default(p) ==
    LET ch == ParseField(p.channel, DefaultFlags.channel,
                         IF p.channel = None THEN Ok("") ELSE ChannelFromStr(p.channel[1]),
                         IF p.channel = None THEN "" ELSE ChannelFromStr(p.channel[1]).err \o "\n")
        mo == ParseField(p.mode, DefaultFlags.mode,
                         IF p.mode = None THEN Ok("") ELSE ModeFromStr(p.mode[1]),
                         IF p.mode = None THEN "" ELSE ModeFromStr(p.mode[1]).err \o "\n")
        ed == ParseField(p.edition, DefaultFlags.edition,
                         IF p.edition = None THEN Ok("") ELSE EditionFromStr(p.edition[1]),
                         IF p.edition = None THEN "" ELSE EditionFromStr(p.edition[1]).err \o "\n")
        wa == ParseField(p.warn, FALSE,
                         IF p.warn = None THEN Ok(FALSE) ELSE BoolFromStr(p.warn[1]),
                         "invalid warn bool\n")
    IN [flags |-> [channel |-> IF ch.e = "" THEN ch.v ELSE "Stable",
                   mode |-> mo.v, edition |-> ed.v],
        warn |-> IF wa.e = "" THEN wa.v ELSE TRUE,
        errors |-> ch.e \o mo.e \o ed.e \o wa.e]

parse_flags(p) ==
    LET ch == ParseField(p.channel, DefaultFlags.channel,
                         IF p.channel = None THEN Ok("") ELSE ChannelFromStr(p.channel[1]),
                         IF p.channel = None THEN "" ELSE ChannelFromStr(p.channel[1]).err \o "\n")
        mo == ParseField(p.mode, DefaultFlags.mode,
                         IF p.mode = None THEN Ok("") ELSE ModeFromStr(p.mode[1]),
                         IF p.mode = None THEN "" ELSE ModeFromStr(p.mode[1]).err \o "\n")
        ed == ParseField(p.edition, DefaultFlags.edition,
                         IF p.edition = None THEN Ok("") ELSE EditionFromStr(p.edition[1]),
                         IF p.edition = None THEN "" ELSE EditionFromStr(p.edition[1]).err \o "\n")
        wa == ParseField(p.warn, FALSE,
                         IF p.warn = None THEN Ok(FALSE) ELSE BoolFromStr(p.warn[1]),
                         "invalid warn bool\n")
    IN [flags |-> [channel |-> ch.v, mode |-> mo.v, edition |-> ed.v],
        warn |-> wa.v,
        errors |-> ch.e \o mo.e \o ed.e \o wa.e]

----------------------------------------------------------------------------
(* The inputs. *)
Commands == {"play", "eval", "miri"}

Codes == {"", "1+1", "fn main() {}", "fn  main", "a\nb\n", "// x\nfn main() { }"}

Bodies == {Fence \o c \o Fence : c \in Codes} \cup {"", "1+1", "fn main() {}"}

Opt(S) == {None} \cup {Some(v) : v \in S}

(* Parameter maps of the command specification: per key absent, values of  *)
(* the lexicon that are not the default, one value outside the lexicon.    *)
MainParams ==
    [channel : Opt({"stable", "beta", "Beta"}), mode : Opt({"release", "fast"}),
     edition : Opt({"2015", "2021"}), warn : Opt({"true", "yes"}), foo : {None}]

(* Parameter maps of the flag-parser specification: the whole lexicon,     *)
(* values outside it, and an unrecognised key.                             *)
AllParams ==
    [channel : Opt({"stable", "beta", "nightly", "Stable", "dev"}),
     mode : Opt({"debug", "release", "Release", "fast"}),
     edition : Opt({"2015", "2018", "2021", "e2018"}),
     warn : Opt({"true", "false", "yes", "1", "True"}),
     foo : Opt({"stable"})]

InitCommon ==
    /\ pc = "start"
    /\ code = None
    /\ flags = DefaultFlags
    /\ warn = FALSE
    /\ errors = ""
    /\ request = None
    /\ result = None
    /\ rendered = None
    /\ gistPost = <<>>
    /\ gistRet = None
    /\ replies = <<>>
    /\ ret = None
    /\ log = <<>>

Init ==
    /\ cmd \in Commands
    /\ body \in Bodies
    /\ params \in MainParams
    /\ InitCommon

(* parse_flags alone, on every parameter map. *)
InitFlags ==
    /\ cmd = "parse_flags"
    /\ body = ""
    /\ params \in AllParams
    /\ InitCommon

ParseFlagsOnly ==
    /\ cmd = "parse_flags"
    /\ pc = "start"
    /\ LET r == parse_flags(params)
       IN /\ flags' = r.flags
          /\ warn' = r.warn
          /\ errors' = r.errors
    /\ pc' = "parsed"
    /\ log' = Append(log, "parse_flags")
    /\ UNCHANGED <<cmd, body, params, code, request, result, rendered, gistPost,
                   gistRet, replies, ret>>

NextFlags == ParseFlagsOnly

SpecFlags == InitFlags /\ [][NextFlags]_vars

----------------------------------------------------------------------------
(* crate::extract_code: the text between the first fence and the next one. *)
extract_code(b) ==
    LET i == Find(b, Fence, 1)
        j == IF i = 0 THEN 0 ELSE Find(b, Fence, i + 3)
    IN IF i = 0 \/ j = 0 THEN None ELSE Some(SubSeq(b, i + 3, j - 1))

(* The text crate::reply_missing_code_block_err replies with. *)
MissingCodeBlockMsg == "Missing code block."

(* The text eval replies with when the code holds an entry point. *)
EvalUsageMsg == "code passed to ?eval should not contain " \o BQ \o "fn main" \o BQ

(* The chat platform's maximum message length. *)
MaxMessageLen == 2000

(* crate::reply_potentially_long_text: the text it sends. *)
reply_potentially_long_text(text_body, text_end, truncation_msg) ==
    IF Len(text_body) + Len(text_end) > MaxMessageLen
    THEN truncation_msg
    ELSE text_body \o text_end

(* The crate_type expression of run_code_and_reply, arms exchanged. *)
CrateTypeSwapped(c) == IF Contains(c, "fn main") THEN "Library" ELSE "Binary"

(* The crate_type expression of run_code_and_reply. *)
CrateTypeOf(c) == IF Contains(c, "fn main") THEN "Binary" ELSE "Library"

(* The request run_code_and_reply posts to /execute. *)
PlaygroundRequest(c, f) ==
    [endpoint |-> "execute", code |-> c, channel |-> f.channel,
     crate_type |-> CrateTypeOf(c), edition |-> f.edition, mode |-> f.mode,
     tests |-> FALSE]

(* miri posting its request to /execute. *)
MiriRequestToExecute(c, f) == [endpoint |-> "execute", edition |-> f.edition, code |-> c]

(* The request miri posts to /miri: edition and code only. *)
MiriRequest(c, f) == [endpoint |-> "miri", edition |-> f.edition, code |-> c]

(* eval without its guard. *)
EvalNeverRejects(c) == FALSE

(* eval's guard on the extracted code. *)
EvalRejects(c) == Contains(c, "fn main")

(* eval's wrapper: the snippet's lines inside println!("{:?}", { .. }). *)
RECURSIVE PushLines(_, _)
PushLines(acc, ls) ==
    IF ls = <<>> THEN acc
    ELSE PushLines(acc \o "        " \o Head(ls) \o "\n", Tail(ls))

EvalWrap(c) ==
    PushLines("fn main() {\n    println!(\"{:?}\", {\n", Lines(c)) \o "    });\n}"

(* send_play_result_reply without its warn arm. *)
RenderIgnoresWarn(r, w) == IF r.success THEN r.stdout ELSE r.stderr

(* The text send_play_result_reply shows. *)
Render(r, w) ==
    IF w THEN r.stderr \o "\n" \o r.stdout
    ELSE IF r.success THEN r.stdout
    ELSE r.stderr

(* url_from_gist with the mode and edition arguments exchanged. *)
url_from_gist_swapped(f, gist_id) ==
    "https://play.rust-lang.org/?version="
    \o (CASE f.channel = "Nightly" -> "nightly" [] f.channel = "Beta" -> "beta"
          [] f.channel = "Stable" -> "stable")
    \o "&mode=" \o (CASE f.edition = "E2015" -> "2015" [] f.edition = "E2018" -> "2018")
    \o "&edition=" \o (CASE f.mode = "Debug" -> "debug" [] f.mode = "Release" -> "release")
    \o "&gist=" \o gist_id

(* url_from_gist *)
url_from_gist(f, gist_id) ==
    "https://play.rust-lang.org/?version="
    \o (CASE f.channel = "Nightly" -> "nightly" [] f.channel = "Beta" -> "beta"
          [] f.channel = "Stable" -> "stable")
    \o "&mode=" \o (CASE f.mode = "Debug" -> "debug" [] f.mode = "Release" -> "release")
    \o "&edition=" \o (CASE f.edition = "E2015" -> "2015" [] f.edition = "E2018" -> "2018")
    \o "&gist=" \o gist_id

(* post_gist taking a response without "id" for an empty identifier. *)
post_gist_lenient(o) ==
    IF o.kind # "json" THEN Err("request failed")
    ELSE IF "id" \in DOMAIN o.map THEN Ok(o.map.id)
    ELSE Ok("")

(* What post_gist returns for a response of the paste service. *)
post_gist(o) ==
    IF o.kind # "json" THEN Err("request failed")
    ELSE IF "id" \in DOMAIN o.map THEN Ok(o.map.id)
    ELSE Err("no gist found")

(* How far past the longest output that still fits inline the outputs go. *)
MaxOver == 1

(* The responses of the services.  With no flag error and warn off, a      *)
(* stdout of MaxMessageLen - 7 characters is the longest that fits inline: *)
(* two fences and a newline take the other seven.                          *)
Stdouts == {"", "4"} \cup {Pad(MaxMessageLen - 7 + k) : k \in 0..MaxOver}
Stderrs == {"", "E0001", Pad(MaxMessageLen + 1)}

NoResult == [success |-> FALSE, stdout |-> "", stderr |-> ""]

ExecOutcomes ==
    {[kind |-> k, result |-> NoResult] : k \in {"transport_error", "bad_json"}}
    \cup {[kind |-> "json", result |-> [success |-> s, stdout |-> o, stderr |-> e]] :
            s \in BOOLEAN, o \in Stdouts, e \in Stderrs}

GistOutcomes ==
    {[kind |-> k, map |-> [message |-> ""]] : k \in {"transport_error", "bad_json"}}
    \cup {[kind |-> "json", map |-> [id |-> "abc123"]],
          [kind |-> "json", map |-> [message |-> "rate limited"]]}

----------------------------------------------------------------------------
(* api::send_reply as the last step of the entry point, whose result is    *)
(* the entry point's return value.                                         *)
SendReplyAndReturn(text, steps) ==
    /\ replies' = Append(replies, text)
    /\ \E sent \in BOOLEAN : ret' = Some(IF sent THEN "Ok" ELSE "Err")
    /\ log' = log \o steps \o <<"send_reply">>
    /\ pc' = "done"

(* An error propagated by "?". *)
ReturnErr(steps) ==
    /\ ret' = Some("Err")
    /\ log' = log \o steps
    /\ pc' = "done"
    /\ UNCHANGED replies

(* crate::reply_missing_code_block_err *)
reply_missing_code_block_err ==
    /\ SendReplyAndReturn(MissingCodeBlockMsg, <<>>)
    /\ UNCHANGED <<code, flags, warn, errors, request, result, rendered, gistPost, gistRet>>

(* parse_flags, then the POST of the request; the call blocks. *)
ParseAndPost(r, c, req) ==
    /\ flags' = r.flags
    /\ warn' = r.warn
    /\ errors' = r.errors
    /\ code' = Some(c)
    /\ request' = Some(req)
    /\ log' = log \o <<"parse_flags", "call " \o req.endpoint>>
    /\ pc' = "exec"
    /\ UNCHANGED <<result, rendered, gistPost, gistRet, replies, ret>>

(* run_code_and_reply up to its POST to /execute. *)
run_code_and_reply(c) ==
    LET r == parse_flags(params)
    IN ParseAndPost(r, c, PlaygroundRequest(c, r.flags))

(* play with the match on extract_code dropped: the body is run as it is. *)
play_without_match ==
    /\ cmd = "play"
    /\ pc = "start"
    /\ run_code_and_reply(body)
    /\ UNCHANGED <<cmd, body, params>>

play ==
    /\ cmd = "play"
    /\ pc = "start"
    /\ LET c == extract_code(body)
       IN IF c = None THEN reply_missing_code_block_err
          ELSE run_code_and_reply(c[1])
    /\ UNCHANGED <<cmd, body, params>>

eval ==
    /\ cmd = "eval"
    /\ pc = "start"
    /\ LET c == extract_code(body)
       IN IF c = None THEN reply_missing_code_block_err
          ELSE IF EvalRejects(c[1])
          THEN /\ SendReplyAndReturn(EvalUsageMsg, <<>>)
               /\ UNCHANGED <<code, flags, warn, errors, request, result, rendered,
                              gistPost, gistRet>>
          ELSE run_code_and_reply(EvalWrap(c[1]))
    /\ UNCHANGED <<cmd, body, params>>

miri ==
    /\ cmd = "miri"
    /\ pc = "start"
    /\ LET c == extract_code(body)
       IN IF c = None THEN reply_missing_code_block_err
          ELSE LET r == parse_flags(params)
               IN ParseAndPost(r, c[1], MiriRequest(c[1], r.flags))
    /\ UNCHANGED <<cmd, body, params>>

(* The playground answers the POST: "?" on send() and json(), then         *)
(* send_play_result_reply up to its own POST to the gist endpoint, which   *)
(* is an argument of reply_potentially_long_text and so evaluated before   *)
(* that call, whatever the length of the text.                             *)
ExecuteResponse ==
    /\ pc = "exec"
    /\ \E o \in ExecOutcomes :
         IF o.kind # "json"
         THEN /\ ReturnErr(<<request[1].endpoint \o " failed">>)
              /\ UNCHANGED <<result, rendered, gistPost>>
         ELSE LET text == Render(o.result, warn)
              IN /\ result' = Some(o.result)
                 /\ rendered' = Some(text)
                 /\ IF text = ""
                    THEN /\ SendReplyAndReturn(errors \o Fence \o " " \o Fence,
                                               <<request[1].endpoint \o " returned">>)
                         /\ UNCHANGED gistPost
                    ELSE /\ gistPost' = Append(gistPost, [code |-> code[1]])
                         /\ log' = log \o <<request[1].endpoint \o " returned", "call gist">>
                         /\ pc' = "gist"
                         /\ UNCHANGED <<replies, ret>>
    /\ UNCHANGED <<cmd, body, params, code, flags, warn, errors, request, gistRet>>

(* The paste service answers: post_gist returns, "?" propagates its error, *)
(* else reply_potentially_long_text sends the reply.                       *)
GistResponse ==
    /\ pc = "gist"
    /\ \E o \in GistOutcomes :
         LET r == post_gist(o)
         IN /\ gistRet' = Some([resp |-> o, ret |-> r])
            /\ IF ~r.ok
               THEN ReturnErr(<<"gist failed">>)
               ELSE SendReplyAndReturn(
                        reply_potentially_long_text(
                            errors \o Fence \o "\n" \o rendered[1],
                            Fence,
                            "Output too large. Playground link: "
                                \o url_from_gist(flags, r.val)),
                        <<"gist returned">>)
    /\ UNCHANGED <<cmd, body, params, code, flags, warn, errors, request, result,
                   rendered, gistPost>>

Next == play \/ eval \/ miri \/ ExecuteResponse \/ GistResponse

Spec == Init /\ [][Next]_vars

----------------------------------------------------------------------------
(* What the claims speak of. *)
HasFence == Contains(body, Fence)

Extracted == extract_code(body)

(* The combined reply, prefix errors plus fenced rendered text, is longer  *)
(* than the platform allows.                                               *)
Overflow ==
    /\ rendered # None
    /\ rendered[1] # ""
    /\ Len(errors) + Len(Fence) + 1 + Len(rendered[1]) + Len(Fence) > MaxMessageLen

ExecFailed == pc = "done" /\ request # None /\ result = None

GistFailed ==
    /\ gistRet # None
    /\ (gistRet[1].resp.kind # "json" \/ "id" \notin DOMAIN gistRet[1].resp.map)

(* C1: for play, eval and miri alike, a body without a fenced code block   *)
(* issues no execute call, no UB-check call and no paste upload, and the   *)
(* one reply of the invocation is the fixed missing-code-block text.       *)
C1_NoCodeBlockNoRemoteCall ==
    (cmd \in Commands /\ ~HasFence) =>
        /\ pc \in {"start", "done"}
        /\ request = None
        /\ gistPost = <<>>
        /\ log \in {<<>>, <<"send_reply">>}
        /\ pc = "done" => replies = <<MissingCodeBlockMsg>>

C1_Witness ==
    /\ cmd = "miri"
    /\ ~HasFence
    /\ body # ""
    /\ pc = "done"
    /\ replies = <<MissingCodeBlockMsg>>

(* C2: an eval whose extracted code holds "fn main" issues no remote call  *)
(* (no execute, no paste upload), sends the usage error and stops,         *)
(* whatever the flag parameters are.                                       *)
C2_EvalWithMainStops ==
    (cmd = "eval" /\ Extracted # None /\ Contains(Extracted[1], "fn main")) =>
        /\ pc \in {"start", "done"}
        /\ request = None
        /\ gistPost = <<>>
        /\ log \in {<<>>, <<"send_reply">>}
        /\ pc = "done" => replies = <<EvalUsageMsg>>

C2_Witness ==
    /\ cmd = "eval"
    /\ Extracted = Some("// x\nfn main() { }")
    /\ params.channel = Some("Beta")
    /\ params.warn = Some("true")
    /\ pc = "done"
    /\ replies = <<EvalUsageMsg>>

(* C3: the rendered text is stderr, a newline, stdout when warn is true,   *)
(* whatever success is; stdout alone when warn is false and success true;  *)
(* stderr alone when warn is false and success false.                      *)
C3_RenderedText ==
    rendered # None =>
        /\ warn => rendered[1] = result[1].stderr \o "\n" \o result[1].stdout
        /\ (~warn /\ result[1].success) => rendered[1] = result[1].stdout
        /\ (~warn /\ ~result[1].success) => rendered[1] = result[1].stderr

C3_Witness ==
    /\ rendered # None
    /\ warn
    /\ result[1].success
    /\ result[1].stdout = "4"
    /\ result[1].stderr = "E0001"
    /\ rendered[1] = "E0001\n4"

(* The texts of the options the flag parser resolves the parameters to.    *)
ChannelText ==
    IF params.channel \in {Some("stable"), Some("beta"), Some("nightly")}
    THEN params.channel[1] ELSE "nightly"

ModeText ==
    IF params.mode \in {Some("debug"), Some("release")} THEN params.mode[1] ELSE "debug"

EditionText ==
    IF params.edition \in {Some("2015"), Some("2018")} THEN params.edition[1] ELSE "2018"

(* C4: when the output overflows the message size, the paste upload is     *)
(* issued exactly once, and the reply holds a playground URL with the      *)
(* resolved channel, mode and edition and the identifier the paste service *)
(* returned.                                                               *)
C4_OverflowUploadsOnceAndLinks ==
    Overflow =>
        /\ Len(gistPost) = 1
        /\ \A i \in 1..Len(replies) :
             /\ gistRet # None
             /\ "id" \in DOMAIN gistRet[1].resp.map
             /\ Contains(replies[i], "https://play.rust-lang.org/?")
             /\ Contains(replies[i], "version=" \o ChannelText \o "&")
             /\ Contains(replies[i], "mode=" \o ModeText \o "&")
             /\ Contains(replies[i], "edition=" \o EditionText \o "&")
             /\ Contains(replies[i], "gist=" \o gistRet[1].resp.map.id)
        /\ (pc = "done" /\ ~GistFailed) => Len(replies) = 1

C4_Witness ==
    /\ pc = "done"
    /\ rendered # None
    /\ Len(rendered[1]) > MaxMessageLen
    /\ params.channel = Some("stable")
    /\ params.mode = Some("release")
    /\ params.edition = Some("2015")
    /\ Len(gistPost) = 1
    /\ replies = <<"Output too large. Playground link: https://play.rust-lang.org/?version=stable&mode=release&edition=2015&gist=abc123">>

(* C5: the paste service is contacted only on overflow: an invocation      *)
(* whose combined reply fits the message size posts nothing to it, so its  *)
(* reply cannot be lost to a failure of the paste service.                 *)
C5_PasteOnlyOnOverflow ==
    (rendered # None /\ ~Overflow) =>
        /\ gistPost = <<>>
        /\ pc = "done" => Len(replies) = 1

(* The lexicons of the four parameters and the option each word stands for. *)
ChannelLexicon == {"stable", "beta", "nightly"}
ModeLexicon == {"debug", "release"}
EditionLexicon == {"2015", "2018"}
WarnLexicon == {"true", "false"}

ChannelNamed(s) == CASE s = "stable" -> "Stable" [] s = "beta" -> "Beta" [] s = "nightly" -> "Nightly"
ModeNamed(s) == CASE s = "debug" -> "Debug" [] s = "release" -> "Release"
EditionNamed(s) == CASE s = "2015" -> "E2015" [] s = "2018" -> "E2018"
WarnNamed(s) == s = "true"

Valid(opt, lexicon) == opt # None /\ opt[1] \in lexicon
Malformed(opt, lexicon) == opt # None /\ opt[1] \notin lexicon

MalformedCount ==
    Cardinality({k \in {"channel", "mode", "edition", "warn"} :
        \/ k = "channel" /\ Malformed(params.channel, ChannelLexicon)
        \/ k = "mode" /\ Malformed(params.mode, ModeLexicon)
        \/ k = "edition" /\ Malformed(params.edition, EditionLexicon)
        \/ k = "warn" /\ Malformed(params.warn, WarnLexicon)})

(* Some line of the error text names the field and holds the raw value.    *)
ErrorNames(field, opt) ==
    \E i \in 1..Len(Lines(errors)) :
        /\ Contains(Lines(errors)[i], field)
        /\ Contains(Lines(errors)[i], opt[1])

(* What parse_flags does to the options: a word of the lexicon sets the    *)
(* option it stands for; an absent or malformed parameter leaves the       *)
(* default; each malformed parameter adds one line, and nothing else does. *)
FlagsResolved ==
    /\ flags.channel = IF Valid(params.channel, ChannelLexicon)
                       THEN ChannelNamed(params.channel[1]) ELSE "Nightly"
    /\ flags.mode = IF Valid(params.mode, ModeLexicon)
                    THEN ModeNamed(params.mode[1]) ELSE "Debug"
    /\ flags.edition = IF Valid(params.edition, EditionLexicon)
                       THEN EditionNamed(params.edition[1]) ELSE "E2018"
    /\ warn = IF Valid(params.warn, WarnLexicon) THEN WarnNamed(params.warn[1]) ELSE FALSE
    /\ Len(Lines(errors)) = MalformedCount
    /\ errors # "" => SubSeq(errors, Len(errors), Len(errors)) = "\n"

(* C6 as stated: every malformed parameter, warn included, gets an error   *)
(* line that names the field and its raw value.                            *)
C6_EveryErrorNamesFieldAndValue ==
    pc = "parsed" =>
        /\ FlagsResolved
        /\ Malformed(params.channel, ChannelLexicon) => ErrorNames("channel", params.channel)
        /\ Malformed(params.mode, ModeLexicon) => ErrorNames("mode", params.mode)
        /\ Malformed(params.edition, EditionLexicon) => ErrorNames("edition", params.edition)
        /\ Malformed(params.warn, WarnLexicon) => ErrorNames("warn", params.warn)

(* C6 amended: a word of the lexicon sets exactly the option it stands for *)
(* and adds no error text; any other value leaves the default, leaves the  *)
(* other options alone and adds one error line, which names the field and  *)
(* the raw value for channel, mode and edition and is the fixed text       *)
(* "invalid warn bool", without the raw value, for warn.  Absent           *)
(* parameters leave the defaults; unrecognised keys change nothing.        *)
C6_ParseFlags ==
    pc = "parsed" =>
        /\ FlagsResolved
        /\ Malformed(params.channel, ChannelLexicon) => ErrorNames("channel", params.channel)
        /\ Malformed(params.mode, ModeLexicon) => ErrorNames("mode", params.mode)
        /\ Malformed(params.edition, EditionLexicon) => ErrorNames("edition", params.edition)
        /\ Malformed(params.warn, WarnLexicon) =>
             \E i \in 1..Len(Lines(errors)) : Lines(errors)[i] = "invalid warn bool"

C6_Witness ==
    /\ pc = "parsed"
    /\ params.channel = Some("dev")
    /\ params.mode = Some("release")
    /\ params.edition = Some("2021")
    /\ params.warn = Some("yes")
    /\ params.foo = Some("stable")
    /\ flags = [channel |-> "Nightly", mode |-> "Release", edition |-> "E2018"]
    /\ ~warn
    /\ Len(Lines(errors)) = 3

C8_OneReplyOrError ==
    /\ Len(replies) <= 1
    /\ (ExecFailed \/ GistFailed) => (pc = "done" /\ replies = <<>> /\ ret = Some("Err"))
    /\ (pc = "done" /\ ~ExecFailed /\ ~GistFailed) => Len(replies) = 1
    /\ (pc = "done" /\ rendered = Some("")) =>
           replies = <<errors \o Fence \o " " \o Fence>>

C8_Witness ==
    /\ pc = "done"
    /\ gistRet # None
    /\ gistRet[1].resp.kind = "json"
    /\ "id" \notin DOMAIN gistRet[1].resp.map
    /\ replies = <<>>
    /\ ret = Some("Err")

(* The orders of steps one invocation may take. *)
ExecutionEndpoint == IF cmd = "miri" THEN "miri" ELSE "execute"

AllowedRuns ==
    LET call == <<"parse_flags", "call " \o ExecutionEndpoint>>
        back == call \o <<ExecutionEndpoint \o " returned">>
    IN {<<"send_reply">>,
        call \o <<ExecutionEndpoint \o " failed">>,
        back \o <<"send_reply">>,
        back \o <<"call gist", "gist failed">>,
        back \o <<"call gist", "gist returned", "send_reply">>}

IsPrefix(a, b) == Len(a) <= Len(b) /\ SubSeq(b, 1, Len(a)) = a

(* C9: the steps run in strict sequence and none is retried: the flags are *)
(* parsed before any remote call; at most one call goes to the execution   *)
(* service, to execute for play and eval and to the UB check for miri; the *)
(* paste upload is issued at most once and only after the execution        *)
(* response came back well; the reply follows the return of every call.    *)
C9_StrictSequence ==
    /\ \E run \in AllowedRuns : IsPrefix(log, run)
    /\ pc = "done" <=> log \in AllowedRuns
    /\ request # None => request[1].endpoint = ExecutionEndpoint
    /\ Len(gistPost) <= 1
    /\ gistPost # <<>> => result # None
    /\ replies # <<>> => pc = "done"

C9_Witness ==
    /\ cmd = "miri"
    /\ pc = "done"
    /\ log = <<"parse_flags", "call miri", "miri returned", "call gist", "gist returned",
               "send_reply">>

(* C10: in every execute request the crate kind is Binary exactly when the *)
(* code of that request holds "fn main", and tests is false; a play        *)
(* request carries the user's code, and every eval request is Binary.      *)
C10_CrateKind ==
    (request # None /\ request[1].endpoint = "execute") =>
        /\ request[1].crate_type = "Binary" <=> Contains(request[1].code, "fn main")
        /\ request[1].crate_type \in {"Binary", "Library"}
        /\ request[1].tests = FALSE
        /\ cmd = "play" => request[1].code = Extracted[1]
        /\ cmd = "eval" => (request[1].crate_type = "Binary"
                              /\ ~Contains(Extracted[1], "fn main"))

C10_Witness ==
    /\ cmd = "eval"
    /\ Extracted = Some("a\nb\n")
    /\ request # None
    /\ request[1].code = "fn main() {\n    println!(\"{:?}\", {\n        a\n        b\n    });\n}"
    /\ request[1].crate_type = "Binary"

====
